---- MODULE Spec2Model ----
(***************************************************************************)
(* Route-cancellation simulator: the accumulation pipeline of              *)
(* streamlit_app.py, the table functions of simulation.py and the          *)
(* alignment / divergence steps of plotting.py.                            *)
(*                                                                         *)
(* A DataFrame is a sequence of rows (records keyed by column name), in    *)
(* row order.  A float column that may hold NaN is modelled as an          *)
(* optional value: NaN is the empty sequence, a number v is <<v>>.         *)
(* Dates are day numbers; the day of "today" is Hoje.                      *)
(***************************************************************************)
EXTENDS Integers, Sequences, FiniteSets, TLC

(* ------------------------------ bounds -------------------------------- *)
\* most trips in the trip table
MaxTrips == 4
\* trips are dated 1..MaxDate
MaxDate == 5
\* the day number of "today" (datetime.now().date())
Hoje == 2

\* most scenarios saved in one session, and most trips of its trip table
MaxCenarios == 2
MaxTripsSessao == 2

\* most rows, and the latest date, of a table handed to a table function
FnMaxRows == 3
FnMaxDate == 3

\* check_start is today + 48h (plotting.py, parameter documentation)
CheckLead == 2

\* the route identifiers trips can carry
Rotas == << "R1", "R2" >>

\* the baseline / realised figures a trip can carry
Figuras ==
  << [GMV_baseline |-> 3, GMV_realizado |-> 4, Cash_baseline |-> 2, Cash_realizado |-> 1],
     [GMV_baseline |-> 1, GMV_realizado |-> 2, Cash_baseline |-> -1, Cash_realizado |-> -3] >>

\* the daily figures a row handed to a table function can carry
FnFiguras ==
  { [GMV_valor |-> 2, Cash_valor |-> -1, GMV_baseline |-> 1, Cash_baseline |-> 1],
    [GMV_valor |-> 1, Cash_valor |-> 3, GMV_baseline |-> 2, Cash_baseline |-> -1],
    [GMV_valor |-> 0, Cash_valor |-> 0, GMV_baseline |-> 0, Cash_baseline |-> 0],
    [GMV_valor |-> -2, Cash_valor |-> -3, GMV_baseline |-> -1, Cash_baseline |-> 2] }

\* the period targets (GMV, Cash) passed to calcular_meta_diluida
Metas == { << 7, 3 >>, << 100, 0 >> }

(* --------------------------- table helpers ---------------------------- *)
NaN == << >>
Num(v) == << v >>
IsNaN(x) == x = NaN

Range(f) == {f[i] : i \in DOMAIN f}

\* variant: a missing operand counts as 0 (fillna(0) before subtracting)
NanSub_fillzero(a, b) ==
  Num((IF IsNaN(a) THEN 0 ELSE a[1]) - (IF IsNaN(b) THEN 0 ELSE b[1]))

\* NaN-propagating subtraction of two float cells
NanSub(a, b) == IF IsNaN(a) \/ IsNaN(b) THEN NaN ELSE Num(a[1] - b[1])

\* df[cond], boolean-mask row selection with the row order kept, is SelectSeq

\* df[col] = values: add or overwrite one column of a row
SetCol(row, col, v) == (col :> v) @@ row

\* Series.sum()
RECURSIVE SumCol(_, _)
SumCol(df, col) ==
  IF df = << >> THEN 0 ELSE df[1][col] + SumCol(Tail(df), col)

\* Series.max() of a non-empty integer column
MaxCol(df, col) ==
  LET vals == {df[i][col] : i \in DOMAIN df}
  IN  CHOOSE m \in vals : \A v \in vals : v <= m

RECURSIVE RunningSum(_, _)
RunningSum(vals, acc) ==
  IF vals = << >> THEN << >>
  ELSE << acc + Head(vals) >> \o RunningSum(Tail(vals), acc + Head(vals))

\* Series.cumsum()
cumsum(df, col) == RunningSum([i \in DOMAIN df |-> df[i][col]], 0)

RECURSIVE InsertByData(_, _)
InsertByData(row, sorted) ==
  IF sorted = << >> THEN << row >>
  ELSE IF row.Data < Head(sorted).Data THEN << row >> \o sorted
  ELSE << Head(sorted) >> \o InsertByData(row, Tail(sorted))

\* DataFrame.sort_values("Data"): ascending by date
RECURSIVE sort_values(_)
sort_values(df) ==
  IF df = << >> THEN << >>
  ELSE InsertByData(df[Len(df)], sort_values(SubSeq(df, 1, Len(df) - 1)))

RECURSIVE SortedKeys(_)
SortedKeys(S) ==
  IF S = {} THEN << >>
  ELSE LET m == CHOOSE x \in S : \A y \in S : x <= y
       IN  << m >> \o SortedKeys(S \ {m})

\* variant: one row per calendar day, the sums 0 on a day without rows
groupby_sum_calendario(df, cols) ==
  [k \in 1..MaxDate |->
    [c \in {"Data"} \cup cols |->
      IF c = "Data" THEN k
      ELSE SumCol(SelectSeq(df, LAMBDA r : r.Data = k), c)]]

\* df.groupby("Data", as_index=False).agg({c: "sum" for c in cols}):
\* one row per distinct date, keys ascending
groupby_sum(df, cols) ==
  LET keys == SortedKeys({df[i].Data : i \in DOMAIN df})
  IN  [k \in DOMAIN keys |->
        [c \in {"Data"} \cup cols |->
          IF c = "Data" THEN keys[k]
          ELSE SumCol(SelectSeq(df, LAMBDA r : r.Data = keys[k]), c)]]

(* ----------------------------- simulation ----------------------------- *)
\* np.where(Data < cutoff, realizado, baseline) for both metrics
definir_valores(df, cutoff) ==
  [i \in DOMAIN df |->
    SetCol(SetCol(df[i], "GMV_valor",
                  IF df[i].Data < cutoff THEN df[i].GMV_realizado
                                         ELSE df[i].GMV_baseline),
           "Cash_valor",
           IF df[i].Data < cutoff THEN df[i].Cash_realizado
                                  ELSE df[i].Cash_baseline)]

\* variant: the running sums are taken in the row order given (no sort)
transformar_sem_ordenar(df, col_gmv, col_cash) ==
  LET gmv == cumsum(df, col_gmv)
      cash == cumsum(df, col_cash)
  IN  [i \in DOMAIN df |->
        SetCol(SetCol(df[i], "GMV_acumulado", gmv[i]), "Cash_acumulado", cash[i])]

transformar_em_acumulado(df, col_gmv, col_cash) ==
  LET df_sorted == sort_values(df)
      gmv == cumsum(df_sorted, col_gmv)
      cash == cumsum(df_sorted, col_cash)
  IN  [i \in DOMAIN df_sorted |->
        SetCol(SetCol(df_sorted[i], "GMV_acumulado", gmv[i]),
               "Cash_acumulado", cash[i])]

(* exact fractions n/d (d > 0, lowest terms) for the weights and targets *)
Abs(x) == IF x < 0 THEN 0 - x ELSE x

RECURSIVE GCD(_, _)
GCD(a, b) == IF b = 0 THEN a ELSE GCD(b, a % b)

Frac(n, d) ==
  LET g == GCD(Abs(n), Abs(d))
      sg == IF d < 0 THEN 0 - 1 ELSE 1
  IN  [n |-> (sg * n) \div g, d |-> (sg * d) \div g]

Zero == [n |-> 0, d |-> 1]
FracAdd(x, y) == Frac(x.n * y.d + y.n * x.d, x.d * y.d)
FracScale(k, x) == Frac(k * x.n, x.d)

RECURSIVE RunningFracSum(_, _)
RunningFracSum(vals, acc) ==
  IF vals = << >> THEN << >>
  ELSE << FracAdd(acc, Head(vals)) >>
         \o RunningFracSum(Tail(vals), FracAdd(acc, Head(vals)))

\* Series.cumsum() of a column of fractions
cumsum_frac(df, col) == RunningFracSum([i \in DOMAIN df |-> df[i][col]], Zero)

\* variant: the weight divides by the number of rows instead of the total
diluir_pela_contagem(df_agg, baseline, peso, diluida, meta) ==
  LET total == SumCol(df_agg, baseline)
  IN  IF total = 0
      THEN [i \in DOMAIN df_agg |-> SetCol(df_agg[i], diluida, Zero)]
      ELSE [i \in DOMAIN df_agg |->
             SetCol(SetCol(df_agg[i], peso, Frac(df_agg[i][baseline], Len(df_agg))),
                    diluida, FracScale(meta, Frac(df_agg[i][baseline], Len(df_agg))))]

\* the weight and diluted-target columns of one metric, written into df_agg
diluir(df_agg, baseline, peso, diluida, meta) ==
  LET total == SumCol(df_agg, baseline)
  IN  IF total = 0
      THEN [i \in DOMAIN df_agg |-> SetCol(df_agg[i], diluida, Zero)]
      ELSE [i \in DOMAIN df_agg |->
             SetCol(SetCol(df_agg[i], peso, Frac(df_agg[i][baseline], total)),
                    diluida, FracScale(meta, Frac(df_agg[i][baseline], total)))]

\* arg: the caller's table after the call; ret: the table returned
calcular_meta_diluida(df_agg, meta_gmv, meta_cash) ==
  LET written == diluir(diluir(df_agg, "GMV_baseline", "Peso_GMV", "GMV_meta_diluida", meta_gmv),
                        "Cash_baseline", "Peso_Cash", "Cash_meta_diluida", meta_cash)
      sorted == sort_values(written)
      gmv == cumsum_frac(sorted, "GMV_meta_diluida")
      cash == cumsum_frac(sorted, "Cash_meta_diluida")
  IN  [arg |-> written,
       ret |-> [i \in DOMAIN sorted |->
                 SetCol(SetCol(sorted[i], "GMV_meta_acumulada", gmv[i]),
                        "Cash_meta_acumulada", cash[i])]]

\* the fixed period targets of calcular_baseline_meta_acumulada
meta_gmv_fixa == 600000
meta_cash_fixa == 300000

calcular_baseline_meta_acumulada(df) ==
  LET written == diluir(diluir(df, "GMV_baseline", "Peso_GMV", "GMV_meta_diluida", meta_gmv_fixa),
                        "Cash_baseline", "Peso_Cash", "Cash_meta_diluida", meta_cash_fixa)
      sorted == sort_values(written)
      gmv_base == cumsum(sorted, "GMV_baseline")
      cash_base == cumsum(sorted, "Cash_baseline")
      gmv == cumsum_frac(sorted, "GMV_meta_diluida")
      cash == cumsum_frac(sorted, "Cash_meta_diluida")
  IN  [arg |-> written,
       ret |-> [i \in DOMAIN sorted |->
                 SetCol(SetCol(SetCol(SetCol(sorted[i],
                   "GMV_baseline_acumulado", gmv_base[i]),
                   "Cash_baseline_acumulado", cash_base[i]),
                   "GMV_meta_acumulada", gmv[i]),
                   "Cash_meta_acumulada", cash[i])]]

(* ------------------------ DataFrame combinators ----------------------- *)
\* df[[cols]]
Project(df, cols) == [i \in DOMAIN df |-> [c \in cols |-> df[i][c]]]

\* pd.concat([A, B]): rows of A then rows of B over the union of the columns;
\* a column one side lacks becomes a float column, NaN on that side
concat(A, colsA, B, colsB) ==
  LET both == colsA \cap colsB
      Fill(row, has) ==
        [c \in colsA \cup colsB |->
          IF c \in both THEN row[c]
          ELSE IF c \in has THEN Num(row[c]) ELSE NaN]
  IN  [i \in DOMAIN A |-> Fill(A[i], colsA)] \o [i \in DOMAIN B |-> Fill(B[i], colsB)]

\* variant: how="inner", rows of L without a match are dropped
RECURSIVE merge_inner(_, _, _)
merge_inner(L, R, rcols) ==
  IF L = << >> THEN << >>
  ELSE LET l == Head(L)
           m == SelectSeq(R, LAMBDA r : r.Data = l.Data)
       IN  [j \in DOMAIN m |-> [c \in rcols |-> Num(m[j][c])] @@ l]
           \o merge_inner(Tail(L), R, rcols)

\* pd.merge(L, R, on="Data", how="left"): every row of L in order, joined
\* with each row of R of the same date; the columns of R are NaN when no
\* row of R has that date
RECURSIVE merge_left(_, _, _)
merge_left(L, R, rcols) ==
  IF L = << >> THEN << >>
  ELSE LET l == Head(L)
           m == SelectSeq(R, LAMBDA r : r.Data = l.Data)
       IN  (IF m = << >> THEN << [c \in rcols |-> NaN] @@ l >>
            ELSE [j \in DOMAIN m |-> [c \in rcols |-> Num(m[j][c])] @@ l])
           \o merge_left(Tail(L), R, rcols)

(* ------------------- the script of streamlit_app.py ------------------- *)
AggTotalCols == {"GMV_valor", "Cash_valor", "GMV_baseline", "Cash_baseline"}
AggFutureCols == {"GMV_valor", "Cash_valor"}
AcumCols == {"GMV_acumulado", "Cash_acumulado"}
FullCols == {"GMV_acumulado_full", "Cash_acumulado_full"}

rotas_disponiveis(df) == {df[i].Rota : i \in DOMAIN df}

df_past(df, cutoff) == SelectSeq(df, LAMBDA r : r.Data <= cutoff)
\* variant: the cutover day counts as future too
df_future_inclusive(df, cutoff) == SelectSeq(df, LAMBDA r : r.Data >= cutoff)
df_future(df, cutoff) == SelectSeq(df, LAMBDA r : r.Data > cutoff)

\* variant: the mask is not negated, only the cancelled routes' trips stay
df_future_sim_so_canceladas(df, cutoff, canceladas) ==
  IF canceladas # {}
  THEN SelectSeq(df_future(df, cutoff), LAMBDA r : r.Rota \in canceladas)
  ELSE df_future(df, cutoff)

df_future_sim(df, cutoff, canceladas) ==
  IF canceladas # {}
  THEN SelectSeq(df_future(df, cutoff), LAMBDA r : r.Rota \notin canceladas)
  ELSE df_future(df, cutoff)

df_agg_total(df) ==
  transformar_em_acumulado(sort_values(groupby_sum(df, AggTotalCols)),
                           "GMV_valor", "Cash_valor")

\* df_agg_total[df_agg_total["Data"] <= cutoff]
df_agg_past(agg_total, cutoff) == SelectSeq(agg_total, LAMBDA r : r.Data <= cutoff)

base_GMV(agg_past) ==
  IF agg_past # << >> THEN MaxCol(agg_past, "GMV_acumulado") ELSE 0

base_Cash(agg_past) ==
  IF agg_past # << >> THEN MaxCol(agg_past, "Cash_acumulado") ELSE 0

\* accumulate future trips from zero, then add the *_acumulado_full columns
AcumulaFuturo(trips, bGMV, bCash) ==
  LET acum == transformar_em_acumulado(
                sort_values(groupby_sum(trips, AggFutureCols)),
                "GMV_valor", "Cash_valor")
  IN  [i \in DOMAIN acum |->
        SetCol(SetCol(acum[i], "GMV_acumulado_full", bGMV + acum[i].GMV_acumulado),
               "Cash_acumulado_full", bCash + acum[i].Cash_acumulado)]

df_agg_future(df, cutoff, bGMV, bCash) ==
  AcumulaFuturo(SelectSeq(df, LAMBDA r : r.Data > cutoff), bGMV, bCash)

df_agg_future_sim(future_sim, bGMV, bCash) == AcumulaFuturo(future_sim, bGMV, bCash)

PastCols == {"Data"} \cup AggTotalCols \cup AcumCols
FutureCols == {"Data"} \cup AggFutureCols \cup AcumCols \cup FullCols

calc_total_acum(agg_past, agg_future) ==
  sort_values(concat(agg_past, PastCols, agg_future, FutureCols))

calc_sim_acum(agg_past, agg_future_sim) ==
  sort_values(concat(agg_past, PastCols, agg_future_sim, FutureCols))

calc_diff_acum(total_acum, sim_acum, cutoff) ==
  LET left == Project(SelectSeq(total_acum, LAMBDA r : r.Data > cutoff),
                      {"Data"} \cup AcumCols)
      simf == SelectSeq(sim_acum, LAMBDA r : r.Data > cutoff)
      right == [i \in DOMAIN simf |->
                 [Data |-> simf[i].Data,
                  GMV_acumulado_sim |-> simf[i].GMV_acumulado,
                  Cash_acumulado_sim |-> simf[i].Cash_acumulado]]
      merged == merge_left(left, right, {"GMV_acumulado_sim", "Cash_acumulado_sim"})
  IN  [i \in DOMAIN merged |->
        SetCol(SetCol(merged[i], "GMV_diferenca",
                      NanSub(merged[i].GMV_acumulado_sim, Num(merged[i].GMV_acumulado))),
               "Cash_diferenca",
               NanSub(merged[i].Cash_acumulado_sim, Num(merged[i].Cash_acumulado)))]

(* ----------------------------- plotting ------------------------------- *)
\* base_cutoff_gmv: the GMV anchor, the largest baseline cumulative value before check_start
base_cutoff_gmv(df_base_acum, check_start) ==
  LET df_base_before_check == SelectSeq(df_base_acum, LAMBDA r : r.Data < check_start)
  IN  IF df_base_before_check # << >>
      THEN MaxCol(df_base_before_check, "GMV_acumulado") ELSE 0

\* variant: the window is re-based on the anchor also when nothing is cancelled
alinhar_gmv_sempre(df_sim_arg, check_start, anchor, canceladas) ==
  LET sim_window == SelectSeq(df_sim_arg, LAMBDA r : r.Data >= check_start)
  IN  IF sim_window # << >>
      THEN [i \in DOMAIN sim_window |->
             SetCol(sim_window[i], "GMV_acumulado_alinhado",
                    anchor + (sim_window[i].GMV_acumulado - sim_window[1].GMV_acumulado))]
      ELSE sim_window

\* df_sim_check with its GMV_acumulado_alinhado column
alinhar_gmv(df_sim_arg, check_start, anchor, canceladas) ==
  LET sim_window == SelectSeq(df_sim_arg, LAMBDA r : r.Data >= check_start)
  IN  IF canceladas = {}
      THEN [i \in DOMAIN sim_window |->
             SetCol(sim_window[i], "GMV_acumulado_alinhado", sim_window[i].GMV_acumulado)]
      ELSE IF sim_window # << >>
      THEN LET primeiro_valor_sim == sim_window[1].GMV_acumulado
           IN  [i \in DOMAIN sim_window |->
                 SetCol(sim_window[i], "GMV_acumulado_alinhado",
                        anchor + (sim_window[i].GMV_acumulado - primeiro_valor_sim))]
      ELSE sim_window

\* df_diff_check with its GMV_diferenca_alinhada column
diferenca_gmv(df_diff, check_start, df_sim_check) ==
  LET diff_window == SelectSeq(df_diff, LAMBDA r : r.Data >= check_start)
  IN  IF diff_window # << >> /\ df_sim_check # << >>
      THEN LET merged == merge_left(diff_window,
                                    Project(df_sim_check, {"Data", "GMV_acumulado_alinhado"}),
                                    {"GMV_acumulado_alinhado"})
           IN  [i \in DOMAIN merged |->
                 SetCol(merged[i], "GMV_diferenca_alinhada",
                        NanSub(merged[i].GMV_acumulado_alinhado,
                               Num(merged[i].GMV_acumulado)))]
      ELSE [i \in DOMAIN diff_window |->
             SetCol(diff_window[i], "GMV_diferenca_alinhada", diff_window[i].GMV_diferenca)]

\* the traces plot_gmv_acumulado computes from its arguments
plot_gmv_acumulado(df_base_acum, df_sim_arg, df_diff, check_start, hoje, canceladas) ==
  LET anchor == base_cutoff_gmv(df_base_acum, check_start)
      df_sim_check == alinhar_gmv(df_sim_arg, check_start, anchor, canceladas)
  IN  [df_base_past |-> SelectSeq(df_base_acum, LAMBDA r : r.Data < hoje),
       df_base_future |-> SelectSeq(df_base_acum, LAMBDA r : r.Data >= hoje),
       base_cutoff |-> anchor,
       df_sim_check |-> df_sim_check,
       df_diff_check |-> diferenca_gmv(df_diff, check_start, df_sim_check)]

\* base_cutoff_cash: the Cash anchor, the largest baseline cumulative value before check_start
base_cutoff_cash(df_base_acum, check_start) ==
  LET df_base_before_check == SelectSeq(df_base_acum, LAMBDA r : r.Data < check_start)
  IN  IF df_base_before_check # << >>
      THEN MaxCol(df_base_before_check, "Cash_acumulado") ELSE 0

\* df_sim_check with its Cash_acumulado_alinhado column
alinhar_cash(df_sim_arg, check_start, anchor, canceladas) ==
  LET sim_window == SelectSeq(df_sim_arg, LAMBDA r : r.Data >= check_start)
  IN  IF canceladas = {}
      THEN [i \in DOMAIN sim_window |->
             SetCol(sim_window[i], "Cash_acumulado_alinhado", sim_window[i].Cash_acumulado)]
      ELSE IF sim_window # << >>
      THEN LET primeiro_valor_sim == sim_window[1].Cash_acumulado
           IN  [i \in DOMAIN sim_window |->
                 SetCol(sim_window[i], "Cash_acumulado_alinhado",
                        anchor + (sim_window[i].Cash_acumulado - primeiro_valor_sim))]
      ELSE sim_window

\* df_diff_check with its Cash_diferenca_alinhada column
diferenca_cash(df_diff, check_start, df_sim_check) ==
  LET diff_window == SelectSeq(df_diff, LAMBDA r : r.Data >= check_start)
  IN  IF diff_window # << >> /\ df_sim_check # << >>
      THEN LET merged == merge_left(diff_window,
                                    Project(df_sim_check, {"Data", "Cash_acumulado_alinhado"}),
                                    {"Cash_acumulado_alinhado"})
           IN  [i \in DOMAIN merged |->
                 SetCol(merged[i], "Cash_diferenca_alinhada",
                        NanSub(merged[i].Cash_acumulado_alinhado,
                               Num(merged[i].Cash_acumulado)))]
      ELSE [i \in DOMAIN diff_window |->
             SetCol(diff_window[i], "Cash_diferenca_alinhada", diff_window[i].Cash_diferenca)]

\* the traces plot_cash_acumulado computes from its arguments
plot_cash_acumulado(df_base_acum, df_sim_arg, df_diff, check_start, hoje, canceladas) ==
  LET anchor == base_cutoff_cash(df_base_acum, check_start)
      df_sim_check == alinhar_cash(df_sim_arg, check_start, anchor, canceladas)
  IN  [df_base_past |-> SelectSeq(df_base_acum, LAMBDA r : r.Data < hoje),
       df_base_future |-> SelectSeq(df_base_acum, LAMBDA r : r.Data >= hoje),
       base_cutoff |-> anchor,
       df_sim_check |-> df_sim_check,
       df_diff_check |-> diferenca_cash(df_diff, check_start, df_sim_check)]

(* ------------------------------- state -------------------------------- *)
VARIABLES
  df,                \* the trip table, with the GMV_valor / Cash_valor columns
  rotas_canceladas,  \* the multiselect's current selection
  df_total_acum,     \* baseline series of the last script run
  df_sim_acum,       \* simulated series of the last script run
  df_diff_acum,      \* difference table of the last script run
  fig_gmv,           \* << >>, or << traces >> of the GMV figure drawn for this run
  fig_cash,          \* << >>, or << traces >> of the Cash figure drawn for this run
  cenarios,          \* st.session_state.cenarios, the saved scenarios
  tela_comparacao,   \* << >>, or << what this run shows of the saved scenarios >>
  fn_arg,            \* the table a caller holds and hands to a table function
  fn_ret             \* the last call of a table function: name, arguments, result

vars == << df, rotas_canceladas, df_total_acum, df_sim_acum, df_diff_acum,
           fig_gmv, fig_cash, cenarios, tela_comparacao, fn_arg, fn_ret >>

app_vars == << df, rotas_canceladas, df_total_acum, df_sim_acum, df_diff_acum,
               fig_gmv, fig_cash, cenarios, tela_comparacao >>
fn_vars == << fn_arg, fn_ret >>

NoCall == [fn |-> "none"]

\* the start of the check window
check_start == Hoje + CheckLead

\* the row orders in which the simulated series can be handed to a plotting
\* function: the rows dated before check_start are masked out on entry, so
\* they stay in front and the rows of the check window come in every order
RowOrders(t) ==
  LET before == SelectSeq(t, LAMBDA r : r.Data < check_start)
      window == SelectSeq(t, LAMBDA r : r.Data >= check_start)
  IN  { before \o [i \in DOMAIN window |-> window[p[i]]] :
          p \in Permutations(DOMAIN window) }

\* trip number k of the bounded trip space: gerar_dados draws the dates of a
\* route without replacement, so a route has at most one trip a day; the
\* figures alternate over routes and days, so every day and every route
\* carries each kind of figures
NTrips == MaxDate * Len(Rotas)
TripOf(k) ==
  LET r == ((k - 1) % Len(Rotas)) + 1
      d == ((k - 1) \div Len(Rotas)) + 1
      f == ((r + d) % Len(Figuras)) + 1
  IN  [Data |-> d, Rota |-> Rotas[r]] @@ Figuras[f]

\* the trip tables considered: up to MaxTrips distinct trips; the script only
\* groups the rows by date and route, so one row order per set is kept
TripTables ==
  UNION { { [i \in 1..n |-> TripOf(s[i])] :
            s \in { t \in [1..n -> 1..NTrips] :
                      \A i \in 1..(n - 1) : t[i] < t[i + 1] } } :
          n \in 0..MaxTrips }

\* the series one run of the script computes from the trip table d (which
\* has its GMV_valor / Cash_valor columns) and the selection
Series(d, cutoff, canceladas) ==
  LET agg_past == df_agg_past(df_agg_total(d), cutoff)
      bGMV == base_GMV(agg_past)
      bCash == base_Cash(agg_past)
      tot == calc_total_acum(agg_past, df_agg_future(d, cutoff, bGMV, bCash))
      sim == calc_sim_acum(agg_past,
                           df_agg_future_sim(df_future_sim(d, cutoff, canceladas),
                                             bGMV, bCash))
  IN  [total |-> tot, sim |-> sim, diff |-> calc_diff_acum(tot, sim, cutoff)]

\* variant: the routes cancelled in earlier runs stay cancelled
Script_cumulativo(dados, canceladas) ==
  \E d \in {definir_valores(dados, Hoje)} :
    \E run \in {Series(d, Hoje, canceladas \cup rotas_canceladas)} :
      /\ df' = d
      /\ rotas_canceladas' = canceladas
      /\ df_total_acum' = run.total
      /\ df_sim_acum' = run.sim
      /\ df_diff_acum' = run.diff
      /\ fig_gmv' = << >>
      /\ fig_cash' = << >>
      /\ UNCHANGED fn_vars

\* one run of the script on table dados with the given selection
Script(dados, canceladas) ==
  \E d \in {definir_valores(dados, Hoje)} :
    \E run \in {Series(d, Hoje, canceladas)} :
      /\ df' = d
      /\ rotas_canceladas' = canceladas
      /\ df_total_acum' = run.total
      /\ df_sim_acum' = run.sim
      /\ df_diff_acum' = run.diff
      /\ fig_gmv' = << >>
      /\ fig_cash' = << >>
      /\ UNCHANGED fn_vars

\* the first run of the script on table dados: nothing selected, nothing
\* drawn, no scenario saved
PrimeiraExecucao(dados) ==
    LET d == definir_valores(dados, Hoje)
        run == Series(d, Hoje, {})
    IN  /\ df = d
        /\ rotas_canceladas = {}
        /\ df_total_acum = run.total
        /\ df_sim_acum = run.sim
        /\ df_diff_acum = run.diff
        /\ fig_gmv = << >>
        /\ fig_cash = << >>
        /\ cenarios = << >>
        /\ tela_comparacao = << >>
        /\ fn_arg = << >>
        /\ fn_ret = NoCall

Init == \E dados \in TripTables : PrimeiraExecucao(dados)

\* the user changes the multiselect: the script reruns
SelecionarRotas ==
  \E sel \in SUBSET rotas_disponiveis(df) :
    /\ sel # rotas_canceladas
    /\ Script(df, sel)
    /\ tela_comparacao' = << >>
    /\ UNCHANGED cenarios

\* the GMV figure is drawn from the series of this run
DesenharGMV ==
  \E sim_arg \in RowOrders(df_sim_acum) :
    /\ fig_gmv' = << plot_gmv_acumulado(df_total_acum, sim_arg, df_diff_acum,
                                        check_start, Hoje, rotas_canceladas) >>
    /\ UNCHANGED << df, rotas_canceladas, df_total_acum, df_sim_acum,
                    df_diff_acum, fig_cash, cenarios, tela_comparacao,
                    fn_arg, fn_ret >>

\* the Cash figure is drawn from the series of this run
DesenharCash ==
  \E sim_arg \in RowOrders(df_sim_acum) :
    /\ fig_cash' = << plot_cash_acumulado(df_total_acum, sim_arg, df_diff_acum,
                                          check_start, Hoje, rotas_canceladas) >>
    /\ UNCHANGED << df, rotas_canceladas, df_total_acum, df_sim_acum,
                    df_diff_acum, fig_gmv, cenarios, tela_comparacao,
                    fn_arg, fn_ret >>

Next == SelecionarRotas \/ DesenharGMV \/ DesenharCash

Spec == Init /\ [][Next]_vars

(* ------------- the session of streamlit_app.py: saved scenarios -------- *)
\* variant: the saved scenario takes the place of the list
salvar_substituindo(lista, scenario) == << scenario >>

\* st.session_state.cenarios.append(scenario)
salvar(lista, scenario) == Append(lista, scenario)

\* "Salvar Cenário Atual": the button reruns the script with the selection
\* unchanged, then appends the scenario of this run to the list
SalvarCenario ==
  /\ Len(cenarios) < MaxCenarios
  /\ Script(df, rotas_canceladas)
  /\ cenarios' = salvar(cenarios, [rotas_canceladas |-> rotas_canceladas',
                                   df_sim |-> df_sim_acum',
                                   df_diff |-> df_diff_acum'])
  /\ tela_comparacao' = << >>

\* what "Visualizar Comparação de Cenários" shows: the saved scenarios with
\* the displayed columns of their tables, or the notice that none is saved
comparacao(lista) ==
  IF lista # << >>
  THEN [i \in DOMAIN lista |->
         [rotas_canceladas |-> lista[i].rotas_canceladas,
          df_sim |-> Project(lista[i].df_sim, {"Data", "GMV_acumulado", "Cash_acumulado"}),
          df_diff |-> Project(lista[i].df_diff, {"Data", "GMV_diferenca", "Cash_diferenca"})]]
  ELSE << "Nenhum cenário salvo ainda." >>

\* "Visualizar Comparação de Cenários": the button reruns the script with
\* the selection unchanged, then shows the list
VisualizarComparacao ==
  /\ Script(df, rotas_canceladas)
  /\ tela_comparacao' = << comparacao(cenarios) >>
  /\ UNCHANGED cenarios

\* a session starts on a trip table of up to MaxTripsSessao trips
InitSessao ==
  \E dados \in {t \in TripTables : Len(t) <= MaxTripsSessao} : PrimeiraExecucao(dados)

NextSessao == SelecionarRotas \/ SalvarCenario \/ VisualizarComparacao

SpecSessao == InitSessao /\ [][NextSessao]_vars

(* ------------- the table functions of simulation.py, called alone ------ *)
\* daily tables with distinct dates, in any row order
DailyTables ==
  UNION { { [i \in 1..n |-> [Data |-> ds[i]] @@ fs[i]] :
            ds \in { t \in [1..n -> 1..FnMaxDate] :
                       \A i, j \in 1..n : i # j => t[i] # t[j] },
            fs \in [1..n -> FnFiguras] } :
          n \in 0..FnMaxRows }

\* trip tables of up to FnMaxRows rows, the argument of definir_valores
FnTripTables == {t \in TripTables : Len(t) <= FnMaxRows}

\* a table of trips has the Rota column, a daily (aggregated) table has not
IsTripTable(t) == \A i \in DOMAIN t : "Rota" \in DOMAIN t[i]
IsDailyTable(t) == \A i \in DOMAIN t : "Rota" \notin DOMAIN t[i]

InitFn ==
  /\ df = << >>
  /\ rotas_canceladas = {}
  /\ df_total_acum = << >>
  /\ df_sim_acum = << >>
  /\ df_diff_acum = << >>
  /\ fig_gmv = << >>
  /\ fig_cash = << >>
  /\ cenarios = << >>
  /\ tela_comparacao = << >>
  /\ fn_arg \in DailyTables \cup FnTripTables
  /\ fn_ret = NoCall

\* definir_valores writes its two columns into the table it is given and
\* returns that same table
CallDefinirValores ==
  \E cutoff \in 1..MaxDate :
    /\ fn_ret = NoCall
    /\ IsTripTable(fn_arg)
    /\ fn_ret' = [fn |-> "definir_valores", df |-> fn_arg, cutoff |-> cutoff,
                  ret |-> definir_valores(fn_arg, cutoff)]
    /\ fn_arg' = definir_valores(fn_arg, cutoff)
    /\ UNCHANGED app_vars

CallTransformarEmAcumulado ==
  /\ fn_ret = NoCall
  /\ IsDailyTable(fn_arg)
  /\ fn_ret' = [fn |-> "transformar_em_acumulado", df |-> fn_arg,
                ret |-> transformar_em_acumulado(fn_arg, "GMV_valor", "Cash_valor")]
  /\ UNCHANGED fn_arg
  /\ UNCHANGED app_vars

CallCalcularMetaDiluida ==
  \E m \in Metas :
    LET call == calcular_meta_diluida(fn_arg, m[1], m[2])
    IN  /\ fn_ret = NoCall
        /\ IsDailyTable(fn_arg)
        /\ fn_ret' = [fn |-> "calcular_meta_diluida", df |-> fn_arg,
                      meta_gmv |-> m[1], meta_cash |-> m[2], ret |-> call.ret]
        /\ fn_arg' = call.arg
        /\ UNCHANGED app_vars

CallCalcularBaselineMetaAcumulada ==
  LET call == calcular_baseline_meta_acumulada(fn_arg)
  IN  /\ fn_ret = NoCall
      /\ IsDailyTable(fn_arg)
      /\ fn_ret' = [fn |-> "calcular_baseline_meta_acumulada", df |-> fn_arg,
                    meta_gmv |-> meta_gmv_fixa, meta_cash |-> meta_cash_fixa,
                    ret |-> call.ret]
      /\ fn_arg' = call.arg
      /\ UNCHANGED app_vars

NextFn ==
  \/ CallDefinirValores
  \/ CallTransformarEmAcumulado
  \/ CallCalcularMetaDiluida
  \/ CallCalcularBaselineMetaAcumulada

SpecFn == InitFn /\ [][NextFn]_vars

(* ------------------------------ properties --------------------------- *)
Dates(t) == {t[i].Data : i \in DOMAIN t}
RowOf(t, d) == t[CHOOSE i \in DOMAIN t : t[i].Data = d]
IsSortedByData(t) == \A i \in 1..(Len(t) - 1) : t[i].Data < t[i + 1].Data
\* sum of column col over the rows of t dated at or before d
PrefixSum(t, col, d) == SumCol(SelectSeq(t, LAMBDA r : r.Data <= d), col)
\* the trips of the cancelled routes dated in lo..hi
CancelledTrips(lo, hi) ==
  SelectSeq(df, LAMBDA r : r.Rota \in rotas_canceladas /\ lo <= r.Data /\ r.Data <= hi)
BaseWindowDates == {d \in Dates(df_total_acum) : d >= check_start}
SimWindowDates == {d \in Dates(df_sim_acum) : d >= check_start}

\* C1: with no route cancelled the simulated series has the dates of the
\* baseline series and the same daily and cumulative GMV and Cash values
NoCancellationIdentity ==
  rotas_canceladas = {} =>
    /\ Len(df_sim_acum) = Len(df_total_acum)
    /\ \A i \in DOMAIN df_total_acum :
         \A c \in {"Data", "GMV_valor", "Cash_valor", "GMV_acumulado", "Cash_acumulado"} :
           df_sim_acum[i][c] = df_total_acum[i][c]

NoCancellationWitness ==
  /\ rotas_canceladas = {}
  /\ \E i \in DOMAIN df_total_acum : df_total_acum[i].Data <= Hoje
  /\ Cardinality({d \in Dates(df_sim_acum) : d > Hoje}) >= 2

\* C2: with routes cancelled and a simulated row at or after check_start, the
\* aligned simulated value at the earliest such date equals the anchor, for
\* GMV and for Cash, in whatever row order the simulated series was passed
AnchoringIdentity ==
  rotas_canceladas # {} =>
    /\ \A f \in Range(fig_gmv) :
         f.df_sim_check # << >> =>
           LET d0 == CHOOSE d \in Dates(f.df_sim_check) :
                       \A e \in Dates(f.df_sim_check) : d <= e
           IN  RowOf(f.df_sim_check, d0).GMV_acumulado_alinhado = f.base_cutoff
    /\ \A f \in Range(fig_cash) :
         f.df_sim_check # << >> =>
           LET d0 == CHOOSE d \in Dates(f.df_sim_check) :
                       \A e \in Dates(f.df_sim_check) : d <= e
           IN  RowOf(f.df_sim_check, d0).Cash_acumulado_alinhado = f.base_cutoff

\* C3: with routes cancelled, the divergence at each date d >= check_start is
\* minus the summed selected value of the cancelled routes' trips dated in
\* check_start..d (stated for a simulated series passed in date order)
DivergenceIsolatesCancellation ==
  rotas_canceladas # {} =>
    /\ \A f \in Range(fig_gmv) :
         IsSortedByData(f.df_sim_check) =>
           \A i \in DOMAIN f.df_diff_check :
             LET r == f.df_diff_check[i]
             IN  ~IsNaN(r.GMV_diferenca_alinhada) =>
                   r.GMV_diferenca_alinhada
                     = Num(0 - SumCol(CancelledTrips(check_start, r.Data), "GMV_valor"))
    /\ \A f \in Range(fig_cash) :
         IsSortedByData(f.df_sim_check) =>
           \A i \in DOMAIN f.df_diff_check :
             LET r == f.df_diff_check[i]
             IN  ~IsNaN(r.Cash_diferenca_alinhada) =>
                   r.Cash_diferenca_alinhada
                     = Num(0 - SumCol(CancelledTrips(check_start, r.Data), "Cash_valor"))

\* C4: the simulated series is built from every trip dated before the cutover
\* and from no trip of a cancelled route dated at or after the cutover, the
\* cutover day included
ScenarioDropsCancelledFromCutover ==
  LET kept == SelectSeq(df, LAMBDA r : r.Data < Hoje \/ r.Rota \notin rotas_canceladas)
  IN  Project(df_sim_acum, {"Data", "GMV_valor", "Cash_valor"})
        = groupby_sum(kept, {"GMV_valor", "Cash_valor"})

\* C5: in the baseline and the simulated series the running total at every
\* date is the sum of that series' daily values over its dates up to it
RunningTotalIsPrefixSum ==
  \A t \in {df_total_acum, df_sim_acum} :
    \A i \in DOMAIN t :
      /\ t[i].GMV_acumulado = PrefixSum(t, "GMV_valor", t[i].Data)
      /\ t[i].Cash_acumulado = PrefixSum(t, "Cash_valor", t[i].Data)

\* C6: for a daily table with distinct dates in any row order,
\* transformar_em_acumulado returns its rows in ascending date order, and the
\* cumulative value at each date is the sum of the daily column over the
\* input rows dated at or before it, negative values included
CumulativeTransformer ==
  fn_ret.fn = "transformar_em_acumulado" =>
    /\ IsSortedByData(fn_ret.ret)
    /\ Len(fn_ret.ret) = Len(fn_ret.df)
    /\ Range(Project(fn_ret.ret, {"Data", "GMV_valor", "Cash_valor"}))
         = Range(Project(fn_ret.df, {"Data", "GMV_valor", "Cash_valor"}))
    /\ \A i \in DOMAIN fn_ret.ret :
         /\ fn_ret.ret[i].GMV_acumulado = PrefixSum(fn_ret.df, "GMV_valor", fn_ret.ret[i].Data)
         /\ fn_ret.ret[i].Cash_acumulado = PrefixSum(fn_ret.df, "Cash_valor", fn_ret.ret[i].Data)

CumulativeTransformerWitness ==
  /\ fn_ret.fn = "transformar_em_acumulado"
  /\ Len(fn_ret.df) = 3
  /\ fn_ret.df[1].Data > fn_ret.df[2].Data
  /\ fn_ret.df[3].Data > fn_ret.df[1].Data
  /\ \E i \in DOMAIN fn_ret.df : fn_ret.df[i].GMV_valor < 0
  /\ \E i \in DOMAIN fn_ret.ret : fn_ret.ret[i].Cash_acumulado < 0

RECURSIVE FracTotal(_, _)
FracTotal(t, col) ==
  IF t = << >> THEN Zero ELSE FracAdd(t[1][col], FracTotal(Tail(t), col))

\* the diluted targets of one metric: they sum to the period target when the
\* baseline total is not zero, and are all zero when it is
DilutedTo(call, baseline, diluida, acumulada, meta) ==
  IF SumCol(call.df, baseline) # 0
  THEN /\ FracTotal(call.ret, diluida) = Frac(meta, 1)
       /\ call.ret[Len(call.ret)][acumulada] = Frac(meta, 1)
  ELSE \A i \in DOMAIN call.ret : call.ret[i][diluida] = Zero

\* C7: for each metric the per-date diluted targets sum to the period target
\* (the cumulative target at the last date equals it) when the total baseline
\* is not zero, and are all 0 when it is zero, whatever the single values
TargetDilution ==
  fn_ret.fn \in {"calcular_meta_diluida", "calcular_baseline_meta_acumulada"} =>
    /\ Len(fn_ret.ret) = Len(fn_ret.df)
    /\ DilutedTo(fn_ret, "GMV_baseline", "GMV_meta_diluida", "GMV_meta_acumulada",
                 fn_ret.meta_gmv)
    /\ DilutedTo(fn_ret, "Cash_baseline", "Cash_meta_diluida", "Cash_meta_acumulada",
                 fn_ret.meta_cash)

TargetDilutionWitness ==
  /\ fn_ret.fn = "calcular_meta_diluida"
  /\ Len(fn_ret.df) = 3
  /\ SumCol(fn_ret.df, "GMV_baseline") # 0
  /\ SumCol(fn_ret.df, "Cash_baseline") = 0
  /\ \E i \in DOMAIN fn_ret.df : fn_ret.df[i].Cash_baseline # 0
  /\ fn_ret.meta_cash # 0
  /\ \E i \in DOMAIN fn_ret.ret : fn_ret.ret[i].GMV_meta_diluida.d > 1

\* the divergence table of a figure has one entry per baseline date of the
\* check window; an entry with a simulated row is aligned value minus baseline
\* cumulative value, an entry without one carries NaN
JoinedByDate(f, acum, alinhado, diferenca) ==
  /\ Len(f.df_diff_check) = Cardinality(BaseWindowDates)
  /\ Dates(f.df_diff_check) = BaseWindowDates
  /\ \A i \in DOMAIN f.df_diff_check :
       LET r == f.df_diff_check[i]
       IN  IF r.Data \in Dates(df_sim_acum)
           THEN r[diferenca] = Num(RowOf(f.df_sim_check, r.Data)[alinhado]
                                     - RowOf(df_total_acum, r.Data)[acum])
           ELSE r[diferenca] = NaN

\* C8: the divergence series has one entry per baseline date >= check_start;
\* it is displayed simulated value minus baseline cumulative value where the
\* simulated series has that date, and no value (never 0) where it has not
DivergenceJoin ==
  /\ \A f \in Range(fig_gmv) :
       JoinedByDate(f, "GMV_acumulado", "GMV_acumulado_alinhado", "GMV_diferenca_alinhada")
  /\ \A f \in Range(fig_cash) :
       JoinedByDate(f, "Cash_acumulado", "Cash_acumulado_alinhado", "Cash_diferenca_alinhada")

DivergenceJoinWitness ==
  /\ fig_gmv # << >> /\ fig_cash # << >>
  /\ \E i, j \in DOMAIN fig_gmv[1].df_diff_check :
       /\ IsNaN(fig_gmv[1].df_diff_check[i].GMV_diferenca_alinhada)
       /\ ~IsNaN(fig_gmv[1].df_diff_check[j].GMV_diferenca_alinhada)
  /\ \E i, j \in DOMAIN fig_cash[1].df_diff_check :
       /\ IsNaN(fig_cash[1].df_diff_check[i].Cash_diferenca_alinhada)
       /\ ~IsNaN(fig_cash[1].df_diff_check[j].Cash_diferenca_alinhada)

\* C9 as stated: when the simulated series has no row at or after check_start
\* the displayed simulated series and the divergence series are both empty
EmptyWindowEmptySeries ==
  SimWindowDates = {} =>
    /\ \A f \in Range(fig_gmv) : f.df_sim_check = << >> /\ f.df_diff_check = << >>
    /\ \A f \in Range(fig_cash) : f.df_sim_check = << >> /\ f.df_diff_check = << >>

\* C9 amended: when the simulated series has no row at or after check_start
\* the displayed simulated series is empty and the divergence series keeps one
\* entry per baseline date >= check_start, none of which carries a value
EmptyWindowNoValues ==
  SimWindowDates = {} =>
    /\ \A f \in Range(fig_gmv) :
         /\ f.df_sim_check = << >>
         /\ Len(f.df_diff_check) = Cardinality(BaseWindowDates)
         /\ \A i \in DOMAIN f.df_diff_check :
              IsNaN(f.df_diff_check[i].GMV_diferenca_alinhada)
    /\ \A f \in Range(fig_cash) :
         /\ f.df_sim_check = << >>
         /\ Len(f.df_diff_check) = Cardinality(BaseWindowDates)
         /\ \A i \in DOMAIN f.df_diff_check :
              IsNaN(f.df_diff_check[i].Cash_diferenca_alinhada)

EmptyWindowWitness ==
  /\ SimWindowDates = {}
  /\ Cardinality(BaseWindowDates) = 2
  /\ fig_gmv # << >> /\ fig_cash # << >>
  /\ Len(fig_gmv[1].df_diff_check) = 2 /\ Len(fig_cash[1].df_diff_check) = 2

\* C10: with no route cancelled the aligned value at every date >= check_start
\* is the simulated cumulative value itself, which is the baseline cumulative
\* value, and the divergence is 0 at every such date, for both metrics
NoCancellationNoAnchoring ==
  rotas_canceladas = {} =>
    /\ \A f \in Range(fig_gmv) :
         /\ Dates(f.df_sim_check) = BaseWindowDates
         /\ \A i \in DOMAIN f.df_sim_check :
              LET r == f.df_sim_check[i]
              IN  /\ r.GMV_acumulado_alinhado = RowOf(df_sim_acum, r.Data).GMV_acumulado
                  /\ r.GMV_acumulado_alinhado = RowOf(df_total_acum, r.Data).GMV_acumulado
         /\ \A i \in DOMAIN f.df_diff_check :
              f.df_diff_check[i].GMV_diferenca_alinhada = Num(0)
    /\ \A f \in Range(fig_cash) :
         /\ Dates(f.df_sim_check) = BaseWindowDates
         /\ \A i \in DOMAIN f.df_sim_check :
              LET r == f.df_sim_check[i]
              IN  /\ r.Cash_acumulado_alinhado = RowOf(df_sim_acum, r.Data).Cash_acumulado
                  /\ r.Cash_acumulado_alinhado = RowOf(df_total_acum, r.Data).Cash_acumulado
         /\ \A i \in DOMAIN f.df_diff_check :
              f.df_diff_check[i].Cash_diferenca_alinhada = Num(0)

NoCancellationNoAnchoringWitness ==
  /\ rotas_canceladas = {}
  /\ fig_gmv # << >> /\ fig_cash # << >>
  /\ Len(fig_gmv[1].df_sim_check) = 2 /\ Len(fig_gmv[1].df_diff_check) = 2
  /\ Len(fig_cash[1].df_sim_check) = 2 /\ Len(fig_cash[1].df_diff_check) = 2
  /\ fig_gmv[1].base_cutoff # 0
  /\ fig_gmv[1].df_sim_check[1].GMV_acumulado_alinhado # fig_gmv[1].base_cutoff

\* one step of the session keeps the scenario list append-only: a step that
\* changes the list is a save that appends the scenario of its run, and a
\* step that leaves the list as it was is not a save
AppendOnlyStep ==
  IF cenarios' # cenarios
  THEN /\ SalvarCenario
       /\ Len(cenarios') = Len(cenarios) + 1
       /\ SubSeq(cenarios', 1, Len(cenarios)) = cenarios
       /\ cenarios'[Len(cenarios')] = [rotas_canceladas |-> rotas_canceladas,
                                        df_sim |-> df_sim_acum',
                                        df_diff |-> df_diff_acum']
  ELSE ~(/\ rotas_canceladas' = rotas_canceladas
         /\ tela_comparacao' = << >>
         /\ SalvarCenario)

\* C11: over route-selection changes, saves and views, each save appends
\* exactly one entry (the selection and the series of that run), no other
\* action changes the list, and every earlier entry stays as it was saved
ScenarioListAppendOnly == [][AppendOnlyStep]_vars

ScenarioListAppendOnlyWitness ==
  /\ Len(cenarios) = 2
  /\ cenarios[1].rotas_canceladas # cenarios[2].rotas_canceladas
  /\ cenarios[1].df_sim # cenarios[2].df_sim
  /\ rotas_canceladas \notin {cenarios[1].rotas_canceladas, cenarios[2].rotas_canceladas}
  /\ tela_comparacao # << >>
  /\ Len(tela_comparacao[1]) = 2

\* C12: for an empty trip table the daily aggregate, the baseline and the
\* simulated cumulative series, the difference table, the displayed simulated
\* and divergence series of both figures and the diluted cumulative targets
\* are all empty, and both anchors are 0
EmptyTableEmptySeries ==
  df = << >> =>
    /\ df_agg_total(df) = << >>
    /\ df_total_acum = << >> /\ df_sim_acum = << >> /\ df_diff_acum = << >>
    /\ \A f \in Range(fig_gmv) \cup Range(fig_cash) :
         /\ f.df_base_past = << >> /\ f.df_base_future = << >>
         /\ f.df_sim_check = << >> /\ f.df_diff_check = << >>
         /\ f.base_cutoff = 0
    /\ transformar_em_acumulado(df_agg_total(df), "GMV_valor", "Cash_valor") = << >>
    /\ \A m \in Metas : calcular_meta_diluida(df_agg_total(df), m[1], m[2]).ret = << >>
    /\ calcular_baseline_meta_acumulada(df_agg_total(df)).ret = << >>

EmptyTableEmptySeriesWitness ==
  /\ df = << >>
  /\ fig_gmv # << >>
  /\ fig_cash # << >>

\* the trips of the table dated d
TripsOn(d) == SelectSeq(df, LAMBDA r : r.Data = d)
\* a row of a series comes from the past partition when the columns only
\* the future partition has are missing on it
InPastPartition(r) == IsNaN(r.GMV_acumulado_full)

\* C13: every row of the past partition of the baseline series, and every
\* row of the solid past segment of a figure, carries the summed actual
\* figures of its date, and every row of the future partition, and of the
\* dashed segment, the summed baseline figures: the day of the cutover is
\* future everywhere
BoundaryConsistency ==
  /\ \A i \in DOMAIN df_total_acum :
       LET r == df_total_acum[i]
       IN  IF InPastPartition(r)
           THEN /\ r.GMV_valor = SumCol(TripsOn(r.Data), "GMV_realizado")
                /\ r.Cash_valor = SumCol(TripsOn(r.Data), "Cash_realizado")
           ELSE /\ r.GMV_valor = SumCol(TripsOn(r.Data), "GMV_baseline")
                /\ r.Cash_valor = SumCol(TripsOn(r.Data), "Cash_baseline")
  /\ \A f \in Range(fig_gmv) \cup Range(fig_cash) :
       /\ \A i \in DOMAIN f.df_base_past :
            f.df_base_past[i].GMV_valor
              = SumCol(TripsOn(f.df_base_past[i].Data), "GMV_realizado")
       /\ \A i \in DOMAIN f.df_base_future :
            f.df_base_future[i].GMV_valor
              = SumCol(TripsOn(f.df_base_future[i].Data), "GMV_baseline")

\* C14: after a call of definir_valores, transformar_em_acumulado or
\* calcular_meta_diluida the table the caller handed over is as it was
\* before the call: no column added, no value or row order altered
FunctionsArePure ==
  fn_ret.fn \in {"definir_valores", "transformar_em_acumulado", "calcular_meta_diluida"}
    => fn_arg = fn_ret.df

\* the trip table as loaded, before definir_valores added its columns
dados_carregados ==
  Project(df, {"Data", "Rota", "GMV_baseline", "GMV_realizado",
               "Cash_baseline", "Cash_realizado"})

\* the series are those of one run of the pipeline on the loaded trip table
\* with the current selection
SeriesOfOneRun ==
  LET run == Series(definir_valores(dados_carregados, Hoje), Hoje, rotas_canceladas)
  IN  /\ df_total_acum = run.total
      /\ df_sim_acum = run.sim
      /\ df_diff_acum = run.diff

\* a step that keeps the selection keeps the three series
SameInputsSameSeries ==
  rotas_canceladas' = rotas_canceladas =>
    UNCHANGED << df, df_total_acum, df_sim_acum, df_diff_acum >>

\* C15: after any sequence of selection changes, saves and views the
\* baseline, simulated and difference series are those of one run of the
\* pipeline on the trip table with the current selection, and a rerun with
\* the same selection leaves them as they are
RecomputationIdempotent == []SeriesOfOneRun /\ [][SameInputsSameSeries]_vars

RecomputationIdempotentWitness ==
  /\ Len(cenarios) = 2
  /\ cenarios[1].rotas_canceladas = {"R1"}
  /\ cenarios[2].rotas_canceladas = {"R1", "R2"}
  /\ rotas_canceladas = {"R2"}
  /\ tela_comparacao # << >>
  /\ df_sim_acum # cenarios[1].df_sim
  /\ df_sim_acum # cenarios[2].df_sim
  /\ df_sim_acum # df_total_acum

\* the cumulative value of column col of the baseline series at its latest
\* date before check_start, 0 when it has no such date
LatestBeforeCheck(col) ==
  LET before == {d \in Dates(df_total_acum) : d < check_start}
  IN  IF before = {} THEN 0
      ELSE RowOf(df_total_acum,
                 CHOOSE d \in before : \A e \in before : e <= d)[col]

\* C16: the anchor of a figure is the baseline cumulative value at the latest
\* date strictly before check_start (0 without such a date), for GMV and for
\* Cash, negative daily Cash values included
AnchorIsLatestCumulative ==
  /\ \A f \in Range(fig_gmv) : f.base_cutoff = LatestBeforeCheck("GMV_acumulado")
  /\ \A f \in Range(fig_cash) : f.base_cutoff = LatestBeforeCheck("Cash_acumulado")

\* C17: with every trip's selected GMV non-negative, the simulated cumulative
\* GMV under the current selection is at most the one under any subset of it
\* at every date both series have, and the unanchored GMV difference is at
\* most 0 at every future date where it has a value
CancellationMonotone ==
  (\A i \in DOMAIN df : df[i].GMV_valor >= 0) =>
    /\ \A A \in SUBSET rotas_canceladas :
         LET sim_A == Series(df, Hoje, A).sim
         IN  \A d \in Dates(sim_A) \cap Dates(df_sim_acum) :
               RowOf(df_sim_acum, d).GMV_acumulado <= RowOf(sim_A, d).GMV_acumulado
    /\ \A i \in DOMAIN df_diff_acum :
         ~IsNaN(df_diff_acum[i].GMV_diferenca) => df_diff_acum[i].GMV_diferenca[1] <= 0

CancellationMonotoneWitness ==
  /\ rotas_canceladas = {"R1"}
  /\ \A i \in DOMAIN df : df[i].GMV_valor >= 0
  /\ \E i, j \in DOMAIN df_diff_acum :
       /\ df_diff_acum[i].Data < df_diff_acum[j].Data
       /\ ~IsNaN(df_diff_acum[i].GMV_diferenca)
       /\ ~IsNaN(df_diff_acum[j].GMV_diferenca)
       /\ df_diff_acum[j].GMV_diferenca[1] < df_diff_acum[i].GMV_diferenca[1]
       /\ df_diff_acum[i].GMV_diferenca[1] < 0
  /\ \E i \in DOMAIN df_diff_acum :
       /\ ~IsNaN(df_diff_acum[i].Cash_diferenca)
       /\ df_diff_acum[i].Cash_diferenca[1] > 0
====
